---- MODULE Spec2Model ----
(***************************************************************************)
(* Model of r6bot_controller::RobotController (r6bot_controller.cpp).      *)
(*                                                                         *)
(* Two execution contexts are modelled: the subscription callback          *)
(* (delivery context) and the controller's update() (control loop), with   *)
(* the lifecycle callbacks serialised with update().  Only new_msg_ and    *)
(* traj_msg_external_ are shared, so each context is cut into steps at     *)
(* its accesses to those two objects.                                      *)
(*                                                                         *)
(* Arithmetic: time is counted in units of 1/TicksPerSec seconds and       *)
(* joint values in units of 1/Scale, so that the interpolation of the      *)
(* code (done there in double) is exact in integers; floating-point        *)
(* rounding is not modelled.                                               *)
(***************************************************************************)
EXTENDS Integers, Sequences, FiniteSets, TLC

\* ---------------------------------------------------------------- bounds
MaxDeposits == 3
MaxNow == 3
TicksPerSec == 2

\* joint lists the controller is configured with (their lengths)
JointCounts == {0, 2}
MaxJoints == CHOOSE n \in JointCounts : \A m \in JointCounts : m <= n

\* longest trajectory of the catalogue has 3 waypoints: lcm(1,2,3) * TicksPerSec
Scale == 6 * TicksPerSec

Min(a, b) == IF a <= b THEN a ELSE b

\* ------------------------------------------------------------- messages
\* JointTrajectoryPoint: time_from_start (time units), positions, velocities
Waypoint(t, ps, vs) == [time_from_start |-> t, positions |-> ps, velocities |-> vs]

\* a vector of k entries; joint j has value (base + j - 1)
Vec(k, base) == [j \in 1..k |-> (base + j - 1) * Scale]
Zeros(k) == [j \in 1..k |-> 0]

\* JointTrajectory: joint_names (only its length matters here), points
Traj(names, pts) == [joint_names |-> names, points |-> pts]

\* Messages the delivery path may hand to the callback, for n configured joints.
TEmpty(n) == Traj(n, << >>)
TStop(n) == Traj(n, << Waypoint(0, Vec(n, 1), Vec(n, 1)) >>)
TLine(n) == Traj(n, << Waypoint(0, Vec(n, 0), Vec(n, 1)),
                       Waypoint(2, Vec(n, 1), Vec(n, 1)) >>)
\* malformed: positions/velocities one entry short of the joint count
TShort(n) == Traj(n, << Waypoint(0, Vec(n - 1, 0), Vec(n - 1, 1)),
                        Waypoint(1, Vec(n - 1, 1), Vec(n - 1, 1)) >>)
Messages(n) ==
    {TEmpty(n), TStop(n), TLine(n)}
    \cup (IF n >= 1 THEN {TShort(n)} ELSE {})

\* what §7 of the design calls a data error, relative to n configured joints
Malformed(t, n) ==
    \/ t.joint_names # n
    \/ \E i \in 1..Len(t.points) :
          \/ Len(t.points[i].positions) # n
          \/ Len(t.points[i].velocities) # n
    \/ \E i \in 1..(Len(t.points) - 1) :
          t.points[i + 1].time_from_start <= t.points[i].time_from_start

\* values an out-of-bounds read may produce
GarbageVals == {0, Scale}

\* ---------------------------------------------------------------- state
VARIABLES
    lifecycle,        \* "Uninit", "Unconfigured", "Inactive", "Active"
    params,           \* the "joints" parameter: number of joint names declared
    available,        \* joints whose command interfaces the hardware layer grants
    joint_names_,     \* number of configured joints (joint j is named j)
    joint_position_command_interface_,   \* sequence of joints whose handle is held
    joint_velocity_command_interface_,
    traj_msg_external_,   \* the box: [id, msg]; id numbers the deposits (0: initial)
    box_locked,           \* the box's mutex is held by set()
    new_msg_,
    trajectory_msg_,      \* [id, msg]: the active trajectory
    start_time_,
    point_interp_,        \* [positions, velocities]
    cb_pc, cb_msg,        \* subscription callback: "idle", "set", "flag"
    t_pc, now, got,       \* update(): "idle", "get", "adopt", "eval"
    wrote,                \* the set_value() calls of the last update() of this
                          \* activation, or NoWrite
    h                     \* history: see HistInit

vars == << lifecycle, params, available, joint_names_,
           joint_position_command_interface_, joint_velocity_command_interface_,
           traj_msg_external_, box_locked, new_msg_, trajectory_msg_, start_time_,
           point_interp_, cb_pc, cb_msg, t_pc, now, got, wrote, h >>

DefaultMsg == Traj(0, << >>)       \* a default-constructed JointTrajectory
NoWrite == [id |-> -1, positions |-> << >>, velocities |-> << >>, reached_end |-> FALSE,
            rejected |-> FALSE]
NoMsg == [id |-> -1, msg |-> DefaultMsg]

\* history variables (not program state)
HistInit ==
    [ depSeq |-> 0,          \* number of deposits started
      adopted |-> {},        \* ids adopted so far
      readopted |-> FALSE,   \* some id was adopted a second time
      activated |-> FALSE,   \* on_activate has run
      reactivated |-> FALSE, \* on_activate has run again after an on_deactivate
      depAtDeactivate |-> 0, \* deposits completed when the last on_deactivate ran
      snapBox |-> 0,         \* while update() runs: the latest deposit when it began
      takeFailed |-> FALSE,  \* the last update()'s try_get found the box locked
      adoptedNow |-> FALSE,  \* the last update() adopted a trajectory
      status |-> "none",     \* what the last update() returned
      before |-> [positions |-> << >>, velocities |-> << >>] ]
                             \* EvalSpec: point_interp before the last call

\* ------------------------------------------------------- interpolation
\* v[i] of a std::vector; beyond its size the read is out of bounds and yields g
Read(v, i, g) == IF i <= Len(v) THEN v[i] ELSE g

\* interpolate_point: writes entries 1..Len(point_1.positions) of both output
\* vectors; a write beyond the output's size leaves the vector as it is.
\* delta = dnum / dden.
interpolate_point(point_1, point_2, point_interp, dnum, dden, g) ==
    LET k == Len(point_1.positions)
        mix(a, b) == (dnum * b + (dden - dnum) * a) \div dden
    IN  [ positions |->
            [i \in 1..Len(point_interp.positions) |->
                IF i <= k
                THEN mix(point_1.positions[i], Read(point_2.positions, i, g))
                ELSE point_interp.positions[i]],
          velocities |->
            [i \in 1..Len(point_interp.velocities) |->
                IF i <= k
                THEN mix(Read(point_1.velocities, i, g), Read(point_2.velocities, i, g))
                ELSE point_interp.velocities[i]] ]

\* size_t index of the segment: floor(cur * (traj_len / total_time)), then
\* std::min with static_cast<size_t>(traj_len) - 2, which wraps for traj_len = 1
SegmentIndex(traj_len, total_time, cur) ==
    LET ind == (cur * traj_len) \div total_time
    IN  IF traj_len >= 2 THEN Min(ind, traj_len - 2) ELSE ind

\* delta = std::min(cur - ind * (total_time / traj_len), 1.0), in seconds, as the
\* fraction num / den
SegmentDelta(traj_len, total_time, cur, ind) ==
    [ num |-> Min(cur * traj_len - ind * total_time, traj_len * TicksPerSec),
      den |-> traj_len * TicksPerSec ]

\* a waypoint read beyond points.size()
GarbagePoint(k, g) == Waypoint(0, [i \in 1..k |-> g], [i \in 1..k |-> g])

\* variant: at the end of the trajectory the velocities are left as they are
interpolate_trajectory_point_keeps_velocities(traj, cur, point_interp, g) ==
    LET traj_len == Len(traj.points)
        last == traj.points[traj_len]
        total_time == last.time_from_start
    IN  IF cur >= total_time
        THEN [ point |-> [ positions |-> last.positions,
                           velocities |-> point_interp.velocities ],
               reached_end |-> TRUE ]
        ELSE LET ind == SegmentIndex(traj_len, total_time, cur)
                 dden == SegmentDelta(traj_len, total_time, cur, ind).den
                 dnum == SegmentDelta(traj_len, total_time, cur, ind).num
                 p1 == traj.points[ind + 1]
                 p2 == IF ind + 2 <= traj_len
                       THEN traj.points[ind + 2]
                       ELSE GarbagePoint(Len(p1.positions), g)
             IN  [ point |-> interpolate_point(p1, p2, point_interp, dnum, dden, g),
                   reached_end |-> FALSE ]

\* variant: at the end of the trajectory the positions are left as they are
interpolate_trajectory_point_keeps_positions(traj, cur, point_interp, g) ==
    LET traj_len == Len(traj.points)
        last == traj.points[traj_len]
        total_time == last.time_from_start
    IN  IF cur >= total_time
        THEN [ point |-> [ positions |-> point_interp.positions,
                           velocities |-> [i \in 1..Len(point_interp.velocities) |-> 0] ],
               reached_end |-> TRUE ]
        ELSE LET ind == SegmentIndex(traj_len, total_time, cur)
                 dden == SegmentDelta(traj_len, total_time, cur, ind).den
                 dnum == SegmentDelta(traj_len, total_time, cur, ind).num
                 p1 == traj.points[ind + 1]
                 p2 == IF ind + 2 <= traj_len
                       THEN traj.points[ind + 2]
                       ELSE GarbagePoint(Len(p1.positions), g)
             IN  [ point |-> interpolate_point(p1, p2, point_interp, dnum, dden, g),
                   reached_end |-> FALSE ]

\* interpolate_trajectory_point; traj.points is not empty; cur in time units
interpolate_trajectory_point(traj, cur, point_interp, g) ==
    LET traj_len == Len(traj.points)
        last == traj.points[traj_len]
        total_time == last.time_from_start
        reached_end == cur >= total_time
    IN  IF reached_end
        THEN [ point |-> [ positions |-> last.positions,
                           velocities |-> [i \in 1..Len(point_interp.velocities) |-> 0] ],
               reached_end |-> TRUE ]
        ELSE LET ind == SegmentIndex(traj_len, total_time, cur)
                 dden == SegmentDelta(traj_len, total_time, cur, ind).den
                 dnum == SegmentDelta(traj_len, total_time, cur, ind).num
                 p1 == traj.points[ind + 1]
                 p2 == IF ind + 2 <= traj_len
                       THEN traj.points[ind + 2]
                       ELSE GarbagePoint(Len(p1.positions), g)
             IN  [ point |-> interpolate_point(p1, p2, point_interp, dnum, dden, g),
                   reached_end |-> FALSE ]

\* ------------------------------------------------------------ lifecycle
Init ==
    /\ lifecycle = "Uninit"
    /\ params \in JointCounts
    /\ available \in SUBSET (1..params)
    /\ joint_names_ = 0
    /\ joint_position_command_interface_ = << >>
    /\ joint_velocity_command_interface_ = << >>
    /\ traj_msg_external_ = [id |-> 0, msg |-> DefaultMsg]
    /\ box_locked = FALSE
    /\ new_msg_ = FALSE
    /\ trajectory_msg_ = [id |-> 0, msg |-> DefaultMsg]
    /\ start_time_ = 0
    /\ point_interp_ = [positions |-> << >>, velocities |-> << >>]
    /\ cb_pc = "idle"
    /\ cb_msg = NoMsg
    /\ t_pc = "idle"
    /\ now = 0
    /\ got = NoMsg
    /\ wrote = NoWrite
    /\ h = HistInit

\* on_init: reads the parameters, sizes point_interp_, returns SUCCESS
on_init ==
    /\ lifecycle = "Uninit"
    /\ joint_names_' = params
    /\ point_interp_' = [positions |-> Zeros(params), velocities |-> Zeros(params)]
    /\ lifecycle' = "Unconfigured"
    /\ UNCHANGED << params, available, joint_position_command_interface_,
                    joint_velocity_command_interface_, traj_msg_external_,
                    box_locked, new_msg_, trajectory_msg_, start_time_, cb_pc,
                    cb_msg, t_pc, now, got, wrote, h >>

\* on_configure: creates the subscription, returns SUCCESS
on_configure ==
    /\ lifecycle = "Unconfigured"
    /\ lifecycle' = "Inactive"
    /\ UNCHANGED << params, available, joint_names_,
                    joint_position_command_interface_,
                    joint_velocity_command_interface_, traj_msg_external_,
                    box_locked, new_msg_, trajectory_msg_, start_time_,
                    point_interp_, cb_pc, cb_msg, t_pc, now, got, wrote, h >>

\* the elements of a set of joints, in the order of the joint list
RECURSIVE InOrder(_, _)
InOrder(S, j) ==
    IF j > MaxJoints + 1 THEN << >>
    ELSE (IF j \in S THEN << j >> ELSE << >>) \o InOrder(S, j + 1)

\* deposits whose callback has returned
DepositsDone == IF cb_pc = "idle" THEN h.depSeq ELSE h.depSeq - 1

\* deposits whose set() has returned: the id of the latest value stored
DepositsStored == IF cb_pc = "set" THEN h.depSeq - 1 ELSE h.depSeq

\* on_activate: clears the handle vectors and refills them from the interfaces
\* the hardware layer granted (command_interfaces_ is in the order of
\* command_interface_configuration: joint by joint); returns SUCCESS
on_activate ==
    /\ lifecycle = "Inactive"
    /\ joint_position_command_interface_' = InOrder(available, 1)
    /\ joint_velocity_command_interface_' = InOrder(available, 1)
    /\ lifecycle' = "Active"
    /\ h' = [h EXCEPT !.activated = TRUE, !.reactivated = h.activated]
    /\ wrote' = NoWrite
    /\ UNCHANGED << params, available, joint_names_, traj_msg_external_,
                    box_locked, new_msg_, trajectory_msg_, start_time_,
                    point_interp_, cb_pc, cb_msg, t_pc, now, got >>

\* on_deactivate: release_interfaces(), returns SUCCESS
on_deactivate ==
    /\ lifecycle = "Active"
    /\ t_pc = "idle"
    /\ lifecycle' = "Inactive"
    /\ h' = [h EXCEPT !.depAtDeactivate = DepositsDone]
    /\ UNCHANGED << params, available, joint_names_,
                    joint_position_command_interface_,
                    joint_velocity_command_interface_, traj_msg_external_,
                    box_locked, new_msg_, trajectory_msg_, start_time_,
                    point_interp_, cb_pc, cb_msg, t_pc, now, got, wrote >>

\* ------------------------------------------------ subscription callback
\* traj_msg_external_.set(traj_msg): the box's mutex is taken
callback_set_lock ==
    /\ lifecycle \in {"Inactive", "Active"}
    /\ cb_pc = "idle"
    /\ ~box_locked
    /\ h.depSeq < MaxDeposits
    /\ \E traj_msg \in Messages(joint_names_) :
          cb_msg' = [id |-> h.depSeq + 1, msg |-> traj_msg]
    /\ box_locked' = TRUE
    /\ cb_pc' = "set"
    /\ h' = [h EXCEPT !.depSeq = @ + 1]
    /\ UNCHANGED << lifecycle, params, available, joint_names_,
                    joint_position_command_interface_,
                    joint_velocity_command_interface_, traj_msg_external_,
                    new_msg_, trajectory_msg_, start_time_, point_interp_, t_pc,
                    now, got, wrote >>

\* variant: set() keeps a value that update() has not taken yet
callback_set_store_keeps_untaken ==
    /\ cb_pc = "set"
    /\ traj_msg_external_' = IF new_msg_ THEN traj_msg_external_ ELSE cb_msg
    /\ box_locked' = FALSE
    /\ cb_pc' = "flag"
    /\ UNCHANGED << lifecycle, params, available, joint_names_,
                    joint_position_command_interface_,
                    joint_velocity_command_interface_, new_msg_, trajectory_msg_,
                    start_time_, point_interp_, cb_msg, t_pc, now, got, wrote, h >>

\* set(): the value is stored and the mutex released
callback_set_store ==
    /\ cb_pc = "set"
    /\ traj_msg_external_' = cb_msg
    /\ box_locked' = FALSE
    /\ cb_pc' = "flag"
    /\ UNCHANGED << lifecycle, params, available, joint_names_,
                    joint_position_command_interface_,
                    joint_velocity_command_interface_, new_msg_, trajectory_msg_,
                    start_time_, point_interp_, cb_msg, t_pc, now, got, wrote, h >>

\* new_msg_ = true
callback_flag ==
    /\ cb_pc = "flag"
    /\ new_msg_' = TRUE
    /\ cb_pc' = "idle"
    /\ cb_msg' = NoMsg
    /\ UNCHANGED << lifecycle, params, available, joint_names_,
                    joint_position_command_interface_,
                    joint_velocity_command_interface_, traj_msg_external_,
                    box_locked, trajectory_msg_, start_time_, point_interp_, t_pc,
                    now, got, wrote, h >>

\* -------------------------------------------------------------- update()
\* update() reads and writes shared objects (new_msg_, traj_msg_external_) at
\* lines 165, 167 and 172 only; it is cut into steps there, and what follows its
\* last shared access is part of that step.

\* variant: a rejected write ends the write loops
WriteRecord_aborts_on_reject(id, point, reached_end, g, rejected) ==
    [ id |-> id,
      positions |-> [i \in 1..(IF rejected THEN Min(1, Len(joint_position_command_interface_))
                                           ELSE Len(joint_position_command_interface_)) |->
                        Read(point.positions, i, g)],
      velocities |-> [i \in 1..(IF rejected THEN 0
                                            ELSE Len(joint_velocity_command_interface_)) |->
                        Read(point.velocities, i, g)],
      reached_end |-> reached_end,
      rejected |-> rejected ]

\* what update() passes to set_value(), handle by handle
WriteRecord(id, point, reached_end, g, rejected) ==
    [ id |-> id,
      positions |-> [i \in 1..Len(joint_position_command_interface_) |->
                        Read(point.positions, i, g)],
      velocities |-> [i \in 1..Len(joint_velocity_command_interface_) |->
                        Read(point.velocities, i, g)],
      reached_end |-> reached_end,
      rejected |-> rejected ]

\* variant: with no active trajectory the interpolated point is written anyway
EvaluateAndWrite_writes_when_idle(active, start, time, g, rejected) ==
    IF active.msg.points = << >>
    THEN [ trajectory_msg_ |-> active, point_interp_ |-> point_interp_,
           wrote |-> WriteRecord(active.id, point_interp_, FALSE, g, rejected) ]
    ELSE LET r == interpolate_trajectory_point(
                      active.msg, time - start, point_interp_, g)
         IN  [ trajectory_msg_ |->
                   IF r.reached_end
                   THEN [active EXCEPT !.msg.points = << >>] ELSE active,
               point_interp_ |-> r.point,
               wrote |-> WriteRecord(active.id, r.point, r.reached_end, g, rejected) ]

\* variant: at the end of the trajectory update() clears it and returns before
\* the write loops
EvaluateAndWrite_returns_at_end(active, start, time, g, rejected) ==
    IF active.msg.points = << >>
    THEN [ trajectory_msg_ |-> active, point_interp_ |-> point_interp_,
           wrote |-> NoWrite ]
    ELSE LET r == interpolate_trajectory_point(
                      active.msg, time - start, point_interp_, g)
         IN  IF r.reached_end
             THEN [ trajectory_msg_ |-> [active EXCEPT !.msg.points = << >>],
                    point_interp_ |-> r.point, wrote |-> NoWrite ]
             ELSE [ trajectory_msg_ |-> active, point_interp_ |-> r.point,
                    wrote |-> WriteRecord(active.id, r.point, FALSE, g, rejected) ]

\* lines 176-204 with `active` the active trajectory and `start` its start time,
\* as a record of the new values.  Nothing is evaluated or written if the
\* trajectory has no points; else it is evaluated, it is cleared if its end is
\* reached, and set_value() is called on every handle held.  The command
\* interfaces belong to the hardware layer and change through set_value() only;
\* `wrote` records the calls of this update(): the values passed to the position
\* and velocity handles, in handle order, and whether the hardware rejected one
\* (set_value() returned false, which is logged and changes nothing else).
\* g is the value of an out-of-bounds read, should one occur.
EvaluateAndWrite(active, start, time, g, rejected) ==
    IF active.msg.points = << >>
    THEN [ trajectory_msg_ |-> active, point_interp_ |-> point_interp_,
           wrote |-> NoWrite ]
    ELSE LET r == interpolate_trajectory_point(
                      active.msg, time - start, point_interp_, g)
         IN  [ trajectory_msg_ |->
                   IF r.reached_end
                   THEN [active EXCEPT !.msg.points = << >>] ELSE active,
               point_interp_ |-> r.point,
               wrote |-> WriteRecord(active.id, r.point, r.reached_end, g, rejected) ]

\* the outcomes of lines 176-204: over the values an out-of-bounds read may
\* yield, and over the hardware accepting every write or rejecting some
UpdateOutcomes(active, start, time) ==
    { EvaluateAndWrite(active, start, time, g, rejected) :
        g \in GarbageVals,
        rejected \in IF /\ joint_position_command_interface_ = << >>
                        /\ joint_velocity_command_interface_ = << >>
                     THEN {FALSE} ELSE BOOLEAN }

\* the rest of update() from line 176 on
FinishUpdate(active, start, time) ==
    \E o \in UpdateOutcomes(active, start, time) :
        /\ trajectory_msg_' = o.trajectory_msg_
        /\ point_interp_' = o.point_interp_
        /\ wrote' = o.wrote

\* new_msg_ is read false (line 165); the rest of update() follows
update_no_msg ==
    /\ lifecycle = "Active"
    /\ t_pc = "idle"
    /\ now < MaxNow
    /\ ~new_msg_
    /\ now' = now + 1
    /\ FinishUpdate(trajectory_msg_, start_time_, now + 1)
    /\ h' = [h EXCEPT !.takeFailed = FALSE, !.adoptedNow = FALSE,
                      !.status = "OK"]
    /\ UNCHANGED << lifecycle, params, available, joint_names_,
                    joint_position_command_interface_,
                    joint_velocity_command_interface_, traj_msg_external_,
                    box_locked, new_msg_, start_time_, cb_pc, cb_msg, t_pc, got >>

\* new_msg_ is read true (line 165)
update_begin ==
    /\ lifecycle = "Active"
    /\ t_pc = "idle"
    /\ now < MaxNow
    /\ new_msg_
    /\ now' = now + 1
    /\ t_pc' = "get"
    /\ h' = [h EXCEPT !.snapBox = DepositsStored,
                      !.takeFailed = FALSE, !.adoptedNow = FALSE]
    /\ UNCHANGED << lifecycle, params, available, joint_names_,
                    joint_position_command_interface_,
                    joint_velocity_command_interface_, traj_msg_external_,
                    box_locked, new_msg_, trajectory_msg_, start_time_,
                    point_interp_, cb_pc, cb_msg, got, wrote >>

\* try_get() finds the mutex free and returns a copy of the box's value (line 167)
update_try_get ==
    /\ t_pc = "get"
    /\ ~box_locked
    /\ got' = traj_msg_external_
    /\ t_pc' = "adopt"
    /\ UNCHANGED << lifecycle, params, available, joint_names_,
                    joint_position_command_interface_,
                    joint_velocity_command_interface_, traj_msg_external_,
                    box_locked, new_msg_, trajectory_msg_, start_time_,
                    point_interp_, cb_pc, cb_msg, now, wrote, h >>

\* variant: new_msg_ is cleared although try_get() returned nothing
update_try_get_contended_clears_flag ==
    /\ t_pc = "get"
    /\ box_locked
    /\ t_pc' = "idle"
    /\ new_msg_' = FALSE
    /\ FinishUpdate(trajectory_msg_, start_time_, now)
    /\ h' = [h EXCEPT !.takeFailed = TRUE, !.snapBox = 0, !.status = "OK"]
    /\ UNCHANGED << lifecycle, params, available, joint_names_,
                    joint_position_command_interface_,
                    joint_velocity_command_interface_, traj_msg_external_,
                    box_locked, start_time_, cb_pc, cb_msg, now, got >>

\* variant: the box is read with a call that waits for the mutex
update_try_get_contended_waits ==
    /\ t_pc = "get"
    /\ box_locked
    /\ cb_pc # "set"
    /\ t_pc' = "idle"
    /\ FinishUpdate(trajectory_msg_, start_time_, now)
    /\ h' = [h EXCEPT !.takeFailed = TRUE, !.snapBox = 0, !.status = "OK"]
    /\ UNCHANGED << lifecycle, params, available, joint_names_,
                    joint_position_command_interface_,
                    joint_velocity_command_interface_, traj_msg_external_,
                    box_locked, new_msg_, start_time_, cb_pc, cb_msg, now, got >>

\* try_get() finds the mutex held by set() and returns nullopt (line 167); the
\* rest of update() follows
update_try_get_contended ==
    /\ t_pc = "get"
    /\ box_locked
    /\ t_pc' = "idle"
    /\ FinishUpdate(trajectory_msg_, start_time_, now)
    /\ h' = [h EXCEPT !.takeFailed = TRUE, !.snapBox = 0, !.status = "OK"]
    /\ UNCHANGED << lifecycle, params, available, joint_names_,
                    joint_position_command_interface_,
                    joint_velocity_command_interface_, traj_msg_external_,
                    box_locked, new_msg_, start_time_, cb_pc, cb_msg, now, got >>

\* variant: the adopted trajectory runs from the old start time
update_adopt_keeps_start_time ==
    /\ t_pc = "adopt"
    /\ new_msg_' = FALSE
    /\ got' = NoMsg
    /\ t_pc' = "idle"
    /\ FinishUpdate(got, start_time_, now)
    /\ h' = [h EXCEPT !.adopted = @ \cup {got.id},
                      !.readopted = @ \/ got.id \in h.adopted,
                      !.adoptedNow = TRUE, !.snapBox = 0, !.status = "OK"]
    /\ UNCHANGED << lifecycle, params, available, joint_names_,
                    joint_position_command_interface_,
                    joint_velocity_command_interface_, traj_msg_external_,
                    box_locked, start_time_, cb_pc, cb_msg, now >>

\* lines 170-172: the value is adopted; the rest of update() follows
update_adopt ==
    /\ t_pc = "adopt"
    /\ start_time_' = now
    /\ new_msg_' = FALSE
    /\ got' = NoMsg
    /\ t_pc' = "idle"
    /\ FinishUpdate(got, now, now)
    /\ h' = [h EXCEPT !.adopted = @ \cup {got.id},
                      !.readopted = @ \/ got.id \in h.adopted,
                      !.adoptedNow = TRUE, !.snapBox = 0, !.status = "OK"]
    /\ UNCHANGED << lifecycle, params, available, joint_names_,
                    joint_position_command_interface_,
                    joint_velocity_command_interface_, traj_msg_external_,
                    box_locked, cb_pc, cb_msg, now >>

Next ==
    \/ on_init
    \/ on_configure
    \/ on_activate
    \/ on_deactivate
    \/ callback_set_lock
    \/ callback_set_store
    \/ callback_flag
    \/ update_no_msg
    \/ update_begin
    \/ update_try_get
    \/ update_try_get_contended
    \/ update_adopt

Spec == Init /\ [][Next]_vars

\* ---------------------------------- interpolate_trajectory_point on its own
\* A second specification applies interpolate_trajectory_point to trajectories,
\* elapsed times and output buffers drawn from bounded sets.  It uses the
\* variables of the controller: trajectory_msg_ is the trajectory passed,
\* now the elapsed time passed (cur_time), point_interp_ the buffer passed and
\* reused from call to call, wrote.reached_end the out-parameter reached_end.

EvalJointCounts == {1, 2}
EvalLengths == {1, 2, 3}
MaxCur == 3 * TicksPerSec + 1

\* len waypoints, the first at time `first`, then every `step`; waypoint i has
\* positions (i - 1), i, .. and velocities i, i + 1, .. over the joints
EvalTraj(n, len, first, step) ==
    Traj(n, [i \in 1..len |->
                Waypoint(first + (i - 1) * step, Vec(n, i - 1), Vec(n, i))])

\* waypoints at 0 s, 1 s and 3 s
EvalTrajUneven(n) ==
    Traj(n, << Waypoint(0, Vec(n, 0), Vec(n, 1)),
               Waypoint(TicksPerSec, Vec(n, 1), Vec(n, 2)),
               Waypoint(3 * TicksPerSec, Vec(n, 2), Vec(n, 3)) >>)

EvalTrajectories(n) ==
    { EvalTraj(n, len, first, TicksPerSec) :
        len \in EvalLengths, first \in {0, TicksPerSec} }
    \cup {EvalTrajUneven(n)}

\* contents of point_interp_ when the function is called first: as on_init left
\* it, as an earlier trajectory left it, and as the end of a trajectory with
\* too few positions left it
EvalBuffers(n) ==
    { [positions |-> Zeros(n), velocities |-> Zeros(n)],
      [positions |-> Vec(n, 3), velocities |-> Vec(n, 4)],
      [positions |-> Vec(n - 1, 3), velocities |-> Vec(n, 4)] }

EvalInit ==
    /\ lifecycle = "Evaluate"
    /\ params \in EvalJointCounts
    /\ available = {}
    /\ joint_names_ = params
    /\ joint_position_command_interface_ = << >>
    /\ joint_velocity_command_interface_ = << >>
    /\ traj_msg_external_ = [id |-> 0, msg |-> DefaultMsg]
    /\ box_locked = FALSE
    /\ new_msg_ = FALSE
    /\ trajectory_msg_ \in {[id |-> 1, msg |-> t] : t \in EvalTrajectories(params)}
    /\ start_time_ = 0
    /\ point_interp_ \in EvalBuffers(params)
    /\ cb_pc = "idle"
    /\ cb_msg = NoMsg
    /\ t_pc = "idle"
    /\ now = 0
    /\ got = NoMsg
    /\ wrote = NoWrite
    /\ h = HistInit

\* one call interpolate_trajectory_point(trajectory_msg_, cur, point_interp_,
\* reached_end)
evaluate ==
    /\ lifecycle = "Evaluate"
    /\ \E cur \in 0..MaxCur, g \in GarbageVals :
          LET r == interpolate_trajectory_point(trajectory_msg_.msg, cur,
                                                point_interp_, g)
          IN  /\ now' = cur
              /\ point_interp_' = r.point
              /\ wrote' = [NoWrite EXCEPT !.id = trajectory_msg_.id,
                                          !.reached_end = r.reached_end]
    /\ h' = [h EXCEPT !.before = point_interp_, !.status = "called"]
    /\ UNCHANGED << lifecycle, params, available, joint_names_,
                    joint_position_command_interface_,
                    joint_velocity_command_interface_, traj_msg_external_,
                    box_locked, new_msg_, trajectory_msg_, start_time_, cb_pc,
                    cb_msg, t_pc, got >>

EvalNext == evaluate

EvalSpec == EvalInit /\ [][EvalNext]_vars

\* ================================================================ claims
Quiescent == cb_pc = "idle" /\ t_pc = "idle"

\* a step that completes an update()
UpdateEnds == t_pc' = "idle" /\ (t_pc # "idle" \/ now' # now)

\* the trajectory that update() evaluates in a step that completes it
Evaluated == IF t_pc = "adopt" THEN got ELSE trajectory_msg_

\* the elapsed time it is evaluated at
Elapsed == IF t_pc = "adopt" THEN 0 ELSE now' - start_time_

AllZero(v) == \A i \in 1..Len(v) : v[i] = 0

\* C1: each deposited trajectory is adopted at most once: no update() adopts a
\* deposit that an earlier update() has adopted already.
C1_AdoptedAtMostOnce == ~h.readopted

\* C2: no deposit is lost: once the callback and update() have both returned,
\* new_msg_ is not left false while the box holds a deposit never adopted.
C2_NoDepositLost ==
    (Quiescent /\ ~new_msg_ /\ traj_msg_external_.id > 0)
        => traj_msg_external_.id \in h.adopted

\* C3 as stated: the trajectory an update() adopts is the most recent deposit as
\* of the start of that update().
C3_LatestAtTickStart == t_pc = "adopt" => got.id = h.snapBox

\* C3 amended: the trajectory an update() adopts is a deposit at least as recent
\* as the most recent one as of the start of that update() (it is the most
\* recent one when try_get() runs); it is never older than a trajectory adopted
\* before; and a deposit superseded in the box before it was taken is never
\* adopted afterwards.
C3_NeverOlder ==
    /\ [](t_pc = "adopt" =>
            /\ got.id >= h.snapBox
            /\ got.id <= DepositsStored
            /\ \A a \in h.adopted : a <= got.id)
    /\ [][\A k \in 1..MaxDeposits :
            (k < traj_msg_external_.id /\ k \notin h.adopted /\ got.id # k)
                => k \notin h.adopted']_vars

\* T1 then T2 were deposited before update() took from the box; T2 is adopted
C3_Witness == h.adopted = {2} /\ h.adoptedNow /\ t_pc = "idle"

\* C4: after on_deactivate and on_activate, a trajectory that is active, or a
\* write that is made, stems from a deposit made after that on_deactivate, never
\* from one deposited (adopted or not) before it.
C4_ReactivationResets ==
    (h.reactivated /\ lifecycle = "Active")
        => /\ trajectory_msg_.msg.points # << >> => trajectory_msg_.id > h.depAtDeactivate
           /\ wrote # NoWrite => wrote.id > h.depAtDeactivate

\* C5: a malformed trajectory is never adopted as the active trajectory.
C5_MalformedRejected ==
    trajectory_msg_.id > 0 => ~Malformed(trajectory_msg_.msg, joint_names_)

\* C6: with an empty joint list the controller never reaches Active.
C6_EmptyJointsNeverActive == params = 0 => lifecycle # "Active"

\* C7: when try_get() finds the box contended, that update() leaves start_time_
\* as it was, evaluates and writes the trajectory that was active before it (and
\* changes it only by clearing it at its end), and leaves new_msg_ true, so that
\* the next update() calls try_get() again.
C7_ContendedKeepsOld ==
    [][(t_pc = "get" /\ box_locked /\ t_pc' = "idle") =>
          /\ start_time_' = start_time_
          /\ new_msg_'
          /\ \/ trajectory_msg_' = trajectory_msg_
             \/ /\ wrote'.reached_end
                /\ trajectory_msg_' = [trajectory_msg_ EXCEPT !.msg.points = << >>]
          /\ trajectory_msg_.msg.points # << >> =>
                /\ wrote' # NoWrite
                /\ wrote'.id = trajectory_msg_.id
                /\ \E o \in UpdateOutcomes(trajectory_msg_, start_time_, now) :
                      wrote' = o.wrote]_vars

\* an update() found the box contended and wrote the old trajectory's command
C7_Witness == h.takeFailed /\ t_pc = "idle" /\ wrote.positions # << >> /\ new_msg_

\* C8: an update() that has no active trajectory calls set_value() on no handle
\* and leaves the interpolated point as it is; and between two update()s nothing
\* is written.
C8_NoTrajectoryNoWrite ==
    [][/\ (UpdateEnds /\ Evaluated.msg.points = << >>) =>
              (wrote' = NoWrite /\ point_interp_' = point_interp_)
       /\ ~UpdateEnds => (wrote' = wrote \/ wrote' = NoWrite)]_vars

\* two update()s in a row have run with no active trajectory
C8_Witness ==
    /\ lifecycle = "Active" /\ t_pc = "idle" /\ now >= 2
    /\ h.adopted = {} /\ wrote = NoWrite

\* C9: the update() in which the elapsed time reaches the active trajectory's
\* total time writes the final point (the last waypoint's positions, for every
\* handle that has one, and zero velocities) and clears the active trajectory;
\* the trajectory stays cleared until an update() adopts one, and meanwhile no
\* update() writes.
C9_FinalPointThenHold ==
    [][/\ (/\ UpdateEnds
           /\ Evaluated.msg.points # << >>
           /\ Elapsed >= Evaluated.msg.points[Len(Evaluated.msg.points)].time_from_start)
          => LET last == Evaluated.msg.points[Len(Evaluated.msg.points)]
             IN  /\ wrote' # NoWrite
                 /\ wrote'.id = Evaluated.id
                 /\ wrote'.reached_end
                 /\ Len(wrote'.positions) = Len(joint_position_command_interface_)
                 /\ Len(wrote'.velocities) = Len(joint_velocity_command_interface_)
                 /\ \A i \in 1..Len(wrote'.positions) :
                       i <= Len(last.positions) => wrote'.positions[i] = last.positions[i]
                 /\ AllZero(wrote'.velocities)
                 /\ point_interp_'.positions = last.positions
                 /\ AllZero(point_interp_'.velocities)
                 /\ trajectory_msg_'.msg.points = << >>
       /\ (trajectory_msg_.msg.points = << >> /\ t_pc # "adopt") =>
             /\ trajectory_msg_'.msg.points = << >>
             /\ wrote' = wrote \/ wrote' = NoWrite]_vars

\* a trajectory adopted by an earlier update() has reached its end in this one
C9_Witness ==
    /\ t_pc = "idle" /\ wrote.reached_end /\ ~h.adoptedNow
    /\ wrote.positions # << >> /\ trajectory_msg_.msg.points = << >>

\* the messages C10 is about
EmptyTrajectory(msg) == msg.points = << >>
ImmediateEnd(msg) ==
    msg.points # << >> /\ msg.points[Len(msg.points)].time_from_start = 0

\* C10 as stated: the update() that adopts an empty or an immediate-end
\* trajectory reaches its end: it writes velocity commands that are all zero and
\* clears the active trajectory.
C10_EmptyOrImmediateEndStops ==
    [][(t_pc = "adopt" /\ t_pc' = "idle"
            /\ (EmptyTrajectory(got.msg) \/ ImmediateEnd(got.msg)))
          => /\ wrote' # NoWrite
             /\ wrote'.reached_end
             /\ AllZero(wrote'.velocities)
             /\ trajectory_msg_'.msg.points = << >>]_vars

\* C10 amended: the update() that adopts an immediate-end trajectory reaches its
\* end: it writes that trajectory's point with velocity commands all zero and
\* clears the active trajectory.  The update() that adopts an empty trajectory
\* writes nothing (the commands keep their last values, zero or not) and leaves
\* no active trajectory.  In both cases no later update() writes a command
\* derived from a trajectory adopted before.
C10_ImmediateEndStops ==
    [][/\ (t_pc = "adopt" /\ t_pc' = "idle" /\ ImmediateEnd(got.msg))
          => /\ wrote' # NoWrite
             /\ wrote'.id = got.id
             /\ wrote'.reached_end
             /\ Len(wrote'.velocities) = Len(joint_velocity_command_interface_)
             /\ AllZero(wrote'.velocities)
             /\ trajectory_msg_'.msg.points = << >>
       /\ (t_pc = "adopt" /\ t_pc' = "idle" /\ EmptyTrajectory(got.msg))
          => /\ wrote' = NoWrite
             /\ point_interp_' = point_interp_
             /\ trajectory_msg_'.msg.points = << >>
       /\ (UpdateEnds /\ wrote' # NoWrite)
          => \A a \in h.adopted' : a <= wrote'.id]_vars

\* an immediate-end trajectory was adopted while another one was being executed
C10_Witness ==
    /\ t_pc = "idle" /\ h.adoptedNow /\ wrote.reached_end
    /\ Cardinality(h.adopted) = 2 /\ ~h.readopted
    /\ wrote.velocities # << >> /\ point_interp_.positions # << >>

\* ------------------------------------------- claims on the evaluation
\* the call made in a step of EvalSpec: trajectory, its length and total time
EvalPoints == trajectory_msg_.msg.points
EvalLen == Len(EvalPoints)
EvalTotal == EvalPoints[EvalLen].time_from_start
Evaluates == lifecycle = "Evaluate" /\ h'.status = "called"

\* C11: for the trajectory of 3 waypoints at 0, 1, 2 s with positions 0, 1, 2 of
\* one joint, the evaluation at 0.5 s selects index 0 with delta 1/2 and yields
\* position 0.5, and the evaluation at 1.5 s selects index 1 with delta 1/2 and
\* yields position 1.5.
C11_ThreeWaypointScenario ==
    [][(Evaluates /\ joint_names_ = 1
            /\ trajectory_msg_.msg = EvalTraj(1, 3, 0, TicksPerSec)
            /\ Len(point_interp_.positions) = 1)
          => LET ind == SegmentIndex(EvalLen, EvalTotal, now')
                 d == SegmentDelta(EvalLen, EvalTotal, now', ind)
             IN  /\ 2 * now' = TicksPerSec
                      => /\ ind = 0
                         /\ 2 * d.num = d.den
                         /\ 2 * point_interp_'.positions[1] = Scale
                 /\ 2 * now' = 3 * TicksPerSec
                      => /\ ind = 1
                         /\ 2 * d.num = d.den
                         /\ 2 * point_interp_'.positions[1] = 3 * Scale]_vars

\* C12: for every trajectory and every elapsed time below its total time, the
\* evaluation uses a delta in [0, 1] and returns, for each joint, the convex
\* combination delta * p2 + (1 - delta) * p1 of the positions of two consecutive
\* waypoints, index and index + 1, of that trajectory.
C12_ConvexCombination ==
    [][(Evaluates /\ now' < EvalTotal
            /\ Len(point_interp_.positions) = joint_names_)
          => LET ind == SegmentIndex(EvalLen, EvalTotal, now')
                 d == SegmentDelta(EvalLen, EvalTotal, now', ind)
             IN  /\ 0 <= d.num /\ d.num <= d.den
                 /\ ind + 2 <= EvalLen
                 /\ \A j \in 1..joint_names_ :
                       point_interp_'.positions[j] * d.den
                           = d.num * EvalPoints[ind + 2].positions[j]
                             + (d.den - d.num) * EvalPoints[ind + 1].positions[j]]_vars

\* waypoints evenly spaced in time
UniformlySpaced(points) ==
    \A i \in 2..(Len(points) - 1) :
        points[i + 1].time_from_start - points[i].time_from_start
            = points[i].time_from_start - points[i - 1].time_from_start

\* C13: for every trajectory of at least 2 uniformly spaced waypoints and every
\* elapsed time at or beyond its total time, the evaluation returns the last
\* waypoint's positions, velocities that are all zero (one per configured
\* joint) and reached_end = true, whatever the output buffer held before.
C13_EndPoint ==
    [][(Evaluates /\ EvalLen >= 2 /\ UniformlySpaced(EvalPoints)
            /\ now' >= EvalTotal)
          => /\ point_interp_'.positions = EvalPoints[EvalLen].positions
             /\ point_interp_'.velocities = Zeros(joint_names_)
             /\ wrote'.reached_end]_vars

\* a trajectory of 3 waypoints was evaluated beyond its total time into a buffer
\* that held other positions and nonzero velocities
C13_Witness ==
    /\ lifecycle = "Evaluate" /\ h.status = "called"
    /\ EvalLen = 3 /\ UniformlySpaced(EvalPoints) /\ now > EvalTotal
    /\ wrote.reached_end
    /\ h.before.positions # point_interp_.positions
    /\ ~AllZero(h.before.velocities)
    /\ AllZero(point_interp_.velocities)
    /\ Len(point_interp_.velocities) = Len(h.before.velocities)

\* C17: for every trajectory of at least 1 waypoint and every elapsed time
\* below its total time, the segment index lies in 0 .. waypoint count - 2, and
\* the two waypoints read, traj_msg.points[ind] and traj_msg.points[ind + 1],
\* are both within the trajectory.
C17_IndexInBounds ==
    [][(Evaluates /\ EvalLen >= 1 /\ now' < EvalTotal)
          => LET ind == SegmentIndex(EvalLen, EvalTotal, now')
             IN  /\ ind \in 0..(EvalLen - 2)
                 /\ ind < EvalLen
                 /\ ind + 1 < EvalLen]_vars

\* ------------------------------------------ claims on the controller (2)
\* C14: after activation with any subset of the interfaces granted, the value
\* an update() writes through a joint's position (velocity) handle is the
\* interpolated position (velocity) of that same joint; a joint without a handle
\* is not written and does not shift the values of the others.
C14_HandlesAligned ==
    (/\ lifecycle \in {"Inactive", "Active"}
     /\ wrote # NoWrite
     /\ Len(point_interp_.positions) = joint_names_
     /\ Len(point_interp_.velocities) = joint_names_)
        => /\ \A i \in 1..Len(wrote.positions) :
                 wrote.positions[i]
                     = point_interp_.positions[joint_position_command_interface_[i]]
           /\ \A i \in 1..Len(wrote.velocities) :
                 wrote.velocities[i]
                     = point_interp_.velocities[joint_velocity_command_interface_[i]]

\* C15: in every reachable state point_interp_ has one position and one
\* velocity per configured joint.
C15_BufferSized ==
    lifecycle # "Uninit"
        => /\ Len(point_interp_.positions) = joint_names_
           /\ Len(point_interp_.velocities) = joint_names_

\* the start time an update() evaluates with in a step that completes it
EvaluatedStart == IF t_pc = "adopt" THEN now ELSE start_time_

\* C16: a write that a handle rejects does not abort the update(): set_value()
\* is still called on every position and velocity handle; the active trajectory,
\* start_time_ and the interpolated point are what they are when no write is
\* rejected; and every update() returns OK.
C16_RejectedWriteContinues ==
    [][UpdateEnds =>
          /\ h'.status = "OK"
          /\ wrote' # NoWrite =>
                /\ Len(wrote'.positions) = Len(joint_position_command_interface_)
                /\ Len(wrote'.velocities) = Len(joint_velocity_command_interface_)
          /\ wrote'.rejected =>
                /\ start_time_' = EvaluatedStart
                /\ \E g \in GarbageVals :
                      LET o == EvaluateAndWrite(Evaluated, EvaluatedStart, now', g, FALSE)
                      IN  /\ o.wrote = [wrote' EXCEPT !.rejected = FALSE]
                          /\ o.trajectory_msg_ = trajectory_msg_'
                          /\ o.point_interp_ = point_interp_']_vars

\* an update() had a write rejected, wrote to both joints and the trajectory
\* goes on
C16_Witness ==
    /\ t_pc = "idle" /\ wrote.rejected /\ h.status = "OK"
    /\ Len(wrote.positions) = 2 /\ Len(wrote.velocities) = 2
    /\ trajectory_msg_.msg.points # << >>

C19_AdoptionStartsAtFirstPoint ==
    [][/\ (/\ t_pc = "adopt" /\ t_pc' = "idle"
           /\ Len(got.msg.points) >= 2
           /\ got.msg.points[Len(got.msg.points)].time_from_start > 0)
          => LET pts == got.msg.points
                 total == pts[Len(pts)].time_from_start
                 ind == SegmentIndex(Len(pts), total, now - start_time_')
                 k == Min(Len(pts[1].positions), Len(point_interp_.positions))
             IN  /\ start_time_' = now
                 /\ ind = 0
                 /\ SegmentDelta(Len(pts), total, now - start_time_', ind).num = 0
                 /\ wrote' # NoWrite
                 /\ wrote'.id = got.id
                 /\ ~wrote'.reached_end
                 /\ \A i \in 1..Len(wrote'.positions) :
                       i <= k => wrote'.positions[i] = pts[1].positions[i]
                 /\ \A i \in 1..Len(wrote'.velocities) :
                       (i <= k /\ i <= Len(pts[1].velocities))
                           => wrote'.velocities[i] = pts[1].velocities[i]
       /\ t_pc # "adopt" => start_time_' = start_time_]_vars

\* a two-waypoint trajectory was adopted by the third update() or a later one,
\* which wrote its first waypoint to both joints
C19_Witness ==
    /\ t_pc = "idle" /\ h.adoptedNow /\ now >= 3 /\ start_time_ = now
    /\ trajectory_msg_.msg = TLine(2)
    /\ wrote.positions = Vec(2, 0) /\ wrote.velocities = Vec(2, 1)

====
